---- MODULE Spec2Model ----
(***************************************************************************)
(* jack-delay (src/src/main.rs): a two-channel delay line driven by the   *)
(* JACK process callback.  Every cycle the callback pushes the two input   *)
(* blocks into mem1/mem2 (receive_frames) and then calls send_frames once  *)
(* per channel; send_frames either drains one output block from the head   *)
(* of the buffer (flush already true) or raises the shared flush flag.     *)
(* The notification handler only prints.                                   *)
(*                                                                         *)
(* Samples are modelled as the integers 1..MaxSample.  The content an      *)
(* output port buffer has before the callback touches it is modelled by    *)
(* the marker Stale, which is no sample value, so that a position that was *)
(* never written can be told from one that was.                            *)
(***************************************************************************)
EXTENDS Integers, Sequences, FiniteSets, TLC

\* ------------------------------------------------------------------ bounds
MaxDelay == 2        \* delay_frames ranges over 0..MaxDelay
MaxBlock == 2        \* block length of one cycle ranges over 0..MaxBlock
MaxTotal == 3        \* frames ingested per channel over a whole run
MaxCycles == 3       \* number of process cycles of a run
MaxSample == 2       \* sample values are 1..MaxSample
MaxVerbosityArg == 3 \* number of -v occurrences on the command line

Samples == 1..MaxSample
Stale == -1

VARIABLES
  delay_frames,  \* args.delay_frames
  V,             \* const generic of Notifications<V> chosen in main
  flush,         \* let mut flush
  mem1, mem2,    \* let mut mem1 / mem2
  out1, out2,    \* content of the out1/out2 port buffers after the last cycle
  panicked,      \* a slice index of send_frames was out of range
  in1all, in2all,    \* history: every frame handed to receive_frames, per channel
  out1all, out2all,  \* history: the output blocks of all cycles, concatenated
  lens,              \* history: block length of every cycle
  calls,             \* history: the send_frames calls of the last cycle, in order,
                     \*          each with its arguments and its result
  trigger,           \* history: number of the cycle that set flush, 0 before
  last,          \* the callback that ran last
  ret,           \* what it returned ("Continue", or "Unit" for no value)
  printed        \* the line the last callback wrote to stdout, <<>> if none

engine == <<flush, mem1, mem2>>
ports == <<out1, out2>>
history == <<in1all, in2all, out1all, out2all, lens, calls, trigger>>
vars == <<delay_frames, V, flush, mem1, mem2, out1, out2, panicked,
          in1all, in2all, out1all, out2all, lens, calls, trigger,
          last, ret, printed>>

\* ------------------------------------------------------------ pure helpers
RECURSIVE receive_frames(_, _)
receive_frames(in_port, memory) ==
  IF in_port = <<>> THEN memory
  ELSE receive_frames(Tail(in_port), Append(memory, Head(in_port)))

\* a drain that copies the block out but leaves it in the buffer
send_frames_keep(delay, out_port, memory, fl) ==
  IF fl THEN
    IF Len(out_port) > Len(memory)
    THEN [out_port |-> out_port, memory |-> memory, flush |-> fl, panic |-> TRUE]
    ELSE [out_port |-> SubSeq(memory, 1, Len(out_port)),
          memory |-> memory, flush |-> fl, panic |-> FALSE]
  ELSE IF Len(memory) >= delay
    THEN [out_port |-> out_port, memory |-> memory, flush |-> TRUE, panic |-> FALSE]
    ELSE [out_port |-> out_port, memory |-> memory, flush |-> fl, panic |-> FALSE]

\* the flag recomputed from the fill level on every call
send_frames_recheck(delay, out_port, memory, fl) ==
  IF fl THEN
    IF Len(out_port) > Len(memory)
    THEN [out_port |-> out_port, memory |-> memory, flush |-> fl, panic |-> TRUE]
    ELSE [out_port |-> SubSeq(memory, 1, Len(out_port)),
          memory |-> SubSeq(memory, Len(out_port) + 1, Len(memory)),
          flush |-> (Len(memory) >= delay), panic |-> FALSE]
  ELSE IF Len(memory) >= delay
    THEN [out_port |-> out_port, memory |-> memory, flush |-> TRUE, panic |-> FALSE]
    ELSE [out_port |-> out_port, memory |-> memory, flush |-> fl, panic |-> FALSE]

\* the threshold test written as "longer than" instead of "at least"
send_frames_strict(delay, out_port, memory, fl) ==
  IF fl THEN
    IF Len(out_port) > Len(memory)
    THEN [out_port |-> out_port, memory |-> memory, flush |-> fl, panic |-> TRUE]
    ELSE [out_port |-> SubSeq(memory, 1, Len(out_port)),
          memory |-> SubSeq(memory, Len(out_port) + 1, Len(memory)),
          flush |-> fl, panic |-> FALSE]
  ELSE IF Len(memory) > delay
    THEN [out_port |-> out_port, memory |-> memory, flush |-> TRUE, panic |-> FALSE]
    ELSE [out_port |-> out_port, memory |-> memory, flush |-> fl, panic |-> FALSE]

\* silence written to the output block while the buffer is still filling
send_frames_silence(delay, out_port, memory, fl) ==
  IF fl THEN
    IF Len(out_port) > Len(memory)
    THEN [out_port |-> out_port, memory |-> memory, flush |-> fl, panic |-> TRUE]
    ELSE [out_port |-> SubSeq(memory, 1, Len(out_port)),
          memory |-> SubSeq(memory, Len(out_port) + 1, Len(memory)),
          flush |-> fl, panic |-> FALSE]
  ELSE [out_port |-> [i \in DOMAIN out_port |-> 0], memory |-> memory,
        flush |-> (Len(memory) >= delay), panic |-> FALSE]

\* a drain that fails closed: a short buffer is emitted zero-padded
send_frames_pad(delay, out_port, memory, fl) ==
  IF fl THEN
    IF Len(out_port) > Len(memory)
    THEN [out_port |-> memory \o [i \in 1..(Len(out_port) - Len(memory)) |-> 0],
          memory |-> <<>>, flush |-> fl, panic |-> FALSE]
    ELSE [out_port |-> SubSeq(memory, 1, Len(out_port)),
          memory |-> SubSeq(memory, Len(out_port) + 1, Len(memory)),
          flush |-> fl, panic |-> FALSE]
  ELSE IF Len(memory) >= delay
    THEN [out_port |-> out_port, memory |-> memory, flush |-> TRUE, panic |-> FALSE]
    ELSE [out_port |-> out_port, memory |-> memory, flush |-> fl, panic |-> FALSE]

\* the threshold compared with the length of the output block instead of
\* the length of the buffer
send_frames_portlen(delay, out_port, memory, fl) ==
  IF fl THEN
    IF Len(out_port) > Len(memory)
    THEN [out_port |-> out_port, memory |-> memory, flush |-> fl, panic |-> TRUE]
    ELSE [out_port |-> SubSeq(memory, 1, Len(out_port)),
          memory |-> SubSeq(memory, Len(out_port) + 1, Len(memory)),
          flush |-> fl, panic |-> FALSE]
  ELSE IF Len(out_port) >= delay
    THEN [out_port |-> out_port, memory |-> memory, flush |-> TRUE, panic |-> FALSE]
    ELSE [out_port |-> out_port, memory |-> memory, flush |-> fl, panic |-> FALSE]

\* slice index out of range: memory[..out_port.len()] panics before
\* anything is written
send_frames(delay, out_port, memory, fl) ==
  IF fl THEN
    IF Len(out_port) > Len(memory)
    THEN [out_port |-> out_port, memory |-> memory, flush |-> fl, panic |-> TRUE]
    ELSE [out_port |-> SubSeq(memory, 1, Len(out_port)),
          memory |-> SubSeq(memory, Len(out_port) + 1, Len(memory)),
          flush |-> fl, panic |-> FALSE]
  ELSE IF Len(memory) >= delay
    THEN [out_port |-> out_port, memory |-> memory, flush |-> TRUE, panic |-> FALSE]
    ELSE [out_port |-> out_port, memory |-> memory, flush |-> fl, panic |-> FALSE]

\* match v { 0 => Notifications::<0>, 1 => Notifications::<1>, _ => Notifications::<2> }
Verbosity(v) == IF v = 0 THEN 0 ELSE IF v = 1 THEN 1 ELSE 2

\* an output port buffer of n frames as the host hands it to the callback
StaleBlock(n) == [i \in 1..n |-> Stale]

Blocks(n) == [1..n -> Samples]

Line(fmt, args) == [fmt |-> fmt, args |-> args]
NoLine == Line("", <<>>)

\* ------------------------------------------------------------------- Init
Init ==
  /\ delay_frames \in 0..MaxDelay
  /\ V \in {Verbosity(v) : v \in 0..MaxVerbosityArg}
  /\ flush = FALSE
  /\ mem1 = <<>>
  /\ mem2 = <<>>
  /\ out1 = <<>>
  /\ out2 = <<>>
  /\ panicked = FALSE
  /\ in1all = <<>>
  /\ in2all = <<>>
  /\ out1all = <<>>
  /\ out2all = <<>>
  /\ lens = <<>>
  /\ calls = <<>>
  /\ trigger = 0
  /\ last = "main"
  /\ ret = "Unit"
  /\ printed = Line("Verbosity: {}, buffer: {}", <<ToString(V), ToString(delay_frames)>>)

\* one call of send_frames: the values it was entered with and what it left
SendCall(delay, out_port, memory, fl, res) ==
  [arg |-> [delay_frames |-> delay, out_port |-> out_port, memory |-> memory, flush |-> fl],
   res |-> res]

\* the closure with the two send_frames calls placed before the two
\* receive_frames calls
ProcessCycle_sendfirst(delay, fl, memory1, memory2, in_1_p, in_2_p, out_1_p, out_2_p) ==
  LET s1 == send_frames(delay, out_1_p, memory1, fl)
      s2 == IF s1.panic
            THEN [out_port |-> out_2_p, memory |-> memory2, flush |-> s1.flush, panic |-> TRUE]
            ELSE send_frames(delay, out_2_p, memory2, s1.flush)
  IN [mem1 |-> receive_frames(in_1_p, s1.memory),
      mem2 |-> receive_frames(in_2_p, s2.memory),
      out1 |-> s1.out_port, out2 |-> s2.out_port,
      flush |-> s2.flush, panic |-> s2.panic,
      calls |-> IF s1.panic
                THEN <<SendCall(delay, out_1_p, memory1, fl, s1)>>
                ELSE <<SendCall(delay, out_1_p, memory1, fl, s1),
                       SendCall(delay, out_2_p, memory2, s1.flush, s2)>>]

\* ------------------------------------------------------- process callback
\* One invocation of the process closure: the engine state before the call
\* and the four blocks of the cycle give the engine state and the two
\* output blocks after it.  A panic in the first send_frames call ends the
\* closure before the second call.
ProcessCycle(delay, fl, memory1, memory2, in_1_p, in_2_p, out_1_p, out_2_p) ==
  LET m1 == receive_frames(in_1_p, memory1)
      m2 == receive_frames(in_2_p, memory2)
      s1 == send_frames(delay, out_1_p, m1, fl)
      s2 == IF s1.panic
            THEN [out_port |-> out_2_p, memory |-> m2, flush |-> s1.flush, panic |-> TRUE]
            ELSE send_frames(delay, out_2_p, m2, s1.flush)
  IN [mem1 |-> s1.memory, mem2 |-> s2.memory, out1 |-> s1.out_port,
      out2 |-> s2.out_port, flush |-> s2.flush, panic |-> s2.panic,
      calls |-> IF s1.panic
                THEN <<SendCall(delay, out_1_p, m1, fl, s1)>>
                ELSE <<SendCall(delay, out_1_p, m1, fl, s1),
                       SendCall(delay, out_2_p, m2, s1.flush, s2)>>]

\* The closure run on four given blocks, with the whole run recorded.
ProcessBlocks(in_1_p, in_2_p, out_1_p, out_2_p) ==
  /\ ~panicked
  /\ Len(lens) < MaxCycles
  /\ Len(in1all) + Len(in_1_p) <= MaxTotal
  /\ \E r \in {ProcessCycle(delay_frames, flush, mem1, mem2, in_1_p, in_2_p,
                            out_1_p, out_2_p)} :
        /\ mem1' = r.mem1
        /\ mem2' = r.mem2
        /\ out1' = r.out1
        /\ out2' = r.out2
        /\ flush' = r.flush
        /\ panicked' = r.panic
        /\ out1all' = out1all \o r.out1
        /\ out2all' = out2all \o r.out2
        /\ calls' = r.calls
        /\ trigger' = IF ~flush /\ r.flush THEN Len(lens) + 1 ELSE trigger
  /\ in1all' = in1all \o in_1_p
  /\ in2all' = in2all \o in_2_p
  /\ lens' = Append(lens, Len(in_1_p))
  /\ last' = "process"
  /\ ret' = "Continue"
  /\ printed' = NoLine
  /\ UNCHANGED <<delay_frames, V>>

\* the output port buffers have the length of the input blocks
Process(in_1_p, in_2_p) ==
  ProcessBlocks(in_1_p, in_2_p, StaleBlock(Len(in_1_p)), StaleBlock(Len(in_2_p)))

\* the host hands the callback four blocks of the same length
process ==
  \E n \in 0..MaxBlock : \E in_1_p \in Blocks(n), in_2_p \in Blocks(n) :
    Process(in_1_p, in_2_p)

\* --------------------------------------------------- notification handler
Notify(name, level, line, control) ==
  /\ last' = name
  /\ ret' = control
  /\ printed' = IF V > level THEN line ELSE NoLine
  /\ UNCHANGED <<delay_frames, V, panicked>>
  /\ UNCHANGED engine
  /\ UNCHANGED ports
  /\ UNCHANGED history

thread_init ==
  Notify("thread_init", -1, Line("JACK: thread init", <<>>), "Unit")

shutdown ==
  Notify("shutdown", -1,
         Line("JACK: shutdown with status {:?} because \"{}\"", <<"CLIENT_ZOMBIE", "server exit">>),
         "Unit")

freewheel ==
  \E is_enabled \in BOOLEAN :
    Notify("freewheel", 0,
           Line("JACK: freewheel mode is {}", <<IF is_enabled THEN "on" ELSE "off">>),
           "Unit")

sample_rate ==
  \E srate \in {48000} :
    Notify("sample_rate", 0,
           Line("JACK: sample rate changed to {}", <<ToString(srate)>>), "Continue")

client_registration ==
  \E name \in {"system"}, is_reg \in BOOLEAN :
    Notify("client_registration", 1,
           Line("JACK: {} client with name \"{}\"",
                <<IF is_reg THEN "registered" ELSE "unregistered", name>>),
           "Unit")

port_registration ==
  \E port_id \in {1}, is_reg \in BOOLEAN :
    Notify("port_registration", 1,
           Line("JACK: {} port with id {}",
                <<IF is_reg THEN "registered" ELSE "unregistered", ToString(port_id)>>),
           "Unit")

port_rename ==
  \E port_id \in {1}, old_name \in {"in1"}, new_name \in {"left"} :
    Notify("port_rename", 1,
           Line("JACK: port with id {} renamed from {} to {}",
                <<ToString(port_id), old_name, new_name>>),
           "Continue")

ports_connected ==
  \E port_id_a \in {1}, port_id_b \in {2}, are_connected \in BOOLEAN :
    Notify("ports_connected", 1,
           Line("JACK: ports with id {} and {} are {}",
                <<ToString(port_id_a), ToString(port_id_b),
                  IF are_connected THEN "connected" ELSE "disconnected">>),
           "Unit")

\* an overrun handler that restarts the delay session
xrun_restart ==
  /\ last' = "xrun"
  /\ ret' = "Continue"
  /\ printed' = IF V > 0 THEN Line("JACK: xrun occurred", <<>>) ELSE NoLine
  /\ mem1' = <<>>
  /\ mem2' = <<>>
  /\ flush' = FALSE
  /\ UNCHANGED <<delay_frames, V, panicked>>
  /\ UNCHANGED ports
  /\ UNCHANGED history

graph_reorder ==
  Notify("graph_reorder", 1, Line("JACK: graph reordered", <<>>), "Continue")

xrun ==
  Notify("xrun", 0, Line("JACK: xrun occurred", <<>>), "Continue")

latency ==
  \E mode \in {"Capture", "Playback"} :
    Notify("latency", 1,
           Line("JACK: {} latency has changed",
                <<IF mode = "Capture" THEN "capture" ELSE "playback">>),
           "Unit")

Next ==
  \/ process
  \/ thread_init
  \/ shutdown
  \/ freewheel
  \/ sample_rate
  \/ client_registration
  \/ port_registration
  \/ port_rename
  \/ ports_connected
  \/ graph_reorder
  \/ xrun
  \/ latency

Spec == Init /\ [][Next]_vars

\* ------------------------------------------------ channel imbalance
\* send_frames driven outside the host's equal-length contract: channel 2
\* is fed a block whose length may differ from channel 1's while both
\* output blocks have the length of channel 1's block.
process_imbalance ==
  \E n \in 0..MaxBlock, k \in 0..MaxBlock :
    \E in_1_p \in Blocks(n), in_2_p \in Blocks(k) :
      ProcessBlocks(in_1_p, in_2_p, StaleBlock(n), StaleBlock(n))

NextImbalance == process_imbalance

SpecImbalance == Init /\ [][NextImbalance]_vars

\* ------------------------------------------------ a run without end
\* The closure called for ever.  The history variables keep the last cycle
\* only (lens, in1all, in2all, out1all, out2all hold that cycle's blocks,
\* trigger is 1 if that cycle raised flush and 0 otherwise), so that the
\* number of cycles needs no bound.  MaxMem is above every buffer length
\* the closure can produce from blocks of at most MaxBlock frames.
MaxMem == MaxDelay + 2 * MaxBlock

ProcessLive(in_1_p, in_2_p) ==
  /\ ~panicked
  /\ Len(mem1) + Len(in_1_p) <= MaxMem
  /\ in1all' = in_1_p
  /\ in2all' = in_2_p
  /\ lens' = <<Len(in_1_p)>>
  /\ \E r \in {ProcessCycle(delay_frames, flush, mem1, mem2, in_1_p, in_2_p,
                            StaleBlock(Len(in_1_p)), StaleBlock(Len(in_2_p)))} :
        /\ mem1' = r.mem1
        /\ mem2' = r.mem2
        /\ out1' = r.out1
        /\ out2' = r.out2
        /\ flush' = r.flush
        /\ panicked' = r.panic
        /\ out1all' = r.out1
        /\ out2all' = r.out2
        /\ calls' = r.calls
        /\ trigger' = IF ~flush /\ r.flush THEN 1 ELSE 0
  /\ last' = "process"
  /\ ret' = "Continue"
  /\ printed' = NoLine
  /\ UNCHANGED <<delay_frames, V>>

\* the input blocks of a run without end: n frames of one sample value
\* (send_frames and receive_frames never look at the value of a sample)
LiveBlocks(n) == {[i \in 1..n |-> x] : x \in Samples}

\* a cycle with a block of any length
process_live ==
  \E n \in 0..MaxBlock : \E in_1_p \in LiveBlocks(n), in_2_p \in LiveBlocks(n) :
    ProcessLive(in_1_p, in_2_p)

\* a cycle that carries at least one frame
process_live_frames ==
  \E n \in 1..MaxBlock : \E in_1_p \in LiveBlocks(n), in_2_p \in LiveBlocks(n) :
    ProcessLive(in_1_p, in_2_p)

NextLive == process_live

\* the host keeps invoking the callback, and cycles that carry frames keep
\* coming
LiveSpec ==
  /\ Init
  /\ [][NextLive]_vars
  /\ WF_vars(process_live)
  /\ WF_vars(process_live_frames)

\* ------------------------------------------------ reading the history
RECURSIVE SumLens(_, _)
\* number of frames in the first k blocks of the block-length sequence c
SumLens(c, k) == IF k = 0 THEN 0 ELSE SumLens(c, k - 1) + c[k]

\* block of cycle k out of a per-channel stream that concatenates the blocks
BlockOf(all, k) == SubSeq(all, SumLens(lens, k - 1) + 1, SumLens(lens, k))

\* the samples written to an output stream, in order
Emitted(outall) == SelectSeq(outall, LAMBDA x : x # Stale)

\* some position of an output block was written
Wrote(out_port) == \E i \in DOMAIN out_port : out_port[i] # Stale

Notifications ==
  {"thread_init", "shutdown", "freewheel", "sample_rate", "client_registration",
   "port_registration", "port_rename", "ports_connected", "graph_reorder",
   "xrun", "latency"}

ControlCallbacks == {"sample_rate", "port_rename", "graph_reorder", "xrun"}

\* ------------------------------------------------------------------ claims

\* C1: with the four blocks of every cycle of equal length, no drain of
\* send_frames on either channel asks for more samples than the buffer
\* holds: the out-of-range slice memory[..out_port.len()] never happens.
C1_DrainWithinBuffer == ~panicked

\* C1 witness: both channels have drained samples and nothing panicked.
C1_Witness ==
  /\ ~panicked
  /\ Emitted(out1all) # <<>>
  /\ Emitted(out2all) # <<>>

\* C2 (as claimed): in every cycle channel 1 drains into out1 iff channel 2
\* drains into out2, so after every cycle both channels have emitted the
\* same number of samples and the two buffers have the same length.
C2_ChannelsInStep ==
  /\ Wrote(out1) <=> Wrote(out2)
  /\ Len(Emitted(out1all)) = Len(Emitted(out2all))
  /\ Len(mem1) = Len(mem2)

\* C3 (as claimed): at the end of every cycle in which channel 1 emitted,
\* channel 1 has emitted exactly (ingested - D) samples, i.e. its buffer
\* holds exactly D samples.
C3_LatencyIsDelay ==
  Wrote(out1) =>
    /\ Len(Emitted(out1all)) = Len(in1all) - delay_frames
    /\ Len(mem1) = delay_frames

\* C4 (as claimed): on each channel the sample written at output position T
\* (counted over all cycles) is the sample ingested at position T - D.
C4_ShiftedByDelay ==
  /\ \A T \in DOMAIN out1all :
       out1all[T] # Stale => T > delay_frames /\ out1all[T] = in1all[T - delay_frames]
  /\ \A T \in DOMAIN out2all :
       out2all[T] # Stale => T > delay_frames /\ out2all[T] = in2all[T - delay_frames]

\* C5: on each channel everything ingested so far equals everything emitted
\* so far followed by the buffer content: no reordering, duplication or loss.
C5_IngestedIsEmittedThenBuffer ==
  /\ in1all = Emitted(out1all) \o mem1
  /\ in2all = Emitted(out2all) \o mem2

\* C5 witness: both channels have emitted and channel 1 still buffers samples.
C5_Witness ==
  /\ Emitted(out1all) # <<>>
  /\ Emitted(out2all) # <<>>
  /\ mem1 # <<>>

\* C6: the flush flag is false initially and, once true, stays true in
\* every later state.
C6_FlushOneWay == (flush = FALSE) /\ [][flush => flush']_vars

\* C6 witness: the flag is set and a cycle has run with it set (channel 1
\* has drained).
C6_Witness == flush /\ Wrote(out1)

\* C7 (as claimed): with D = 0 every cycle, the first included, fills each
\* channel's output block with that cycle's input block of the same channel.
C7_ZeroDelayPassThrough ==
  delay_frames = 0 =>
    \A k \in 1..Len(lens) :
      /\ BlockOf(out1all, k) = BlockOf(in1all, k)
      /\ BlockOf(out2all, k) = BlockOf(in2all, k)

\* every engine cycle of a run over the streams s1, s2 cut into blocks of
\* the lengths c, started from the engine state st
RECURSIVE Run(_, _, _, _, _)
Run(delay, st, s1, s2, c) ==
  IF c = <<>> \/ st.panic THEN st
  ELSE LET n == Head(c)
           r == ProcessCycle(delay, st.flush, st.mem1, st.mem2,
                             SubSeq(s1, 1, n), SubSeq(s2, 1, n),
                             StaleBlock(n), StaleBlock(n))
       IN Run(delay,
              [flush |-> r.flush, mem1 |-> r.mem1, mem2 |-> r.mem2, panic |-> r.panic,
               out1all |-> st.out1all \o r.out1, out2all |-> st.out2all \o r.out2],
              SubSeq(s1, n + 1, Len(s1)), SubSeq(s2, n + 1, Len(s2)), Tail(c))

RunFromStart(delay, s1, s2, c) ==
  Run(delay, [flush |-> FALSE, mem1 |-> <<>>, mem2 |-> <<>>, panic |-> FALSE,
              out1all |-> <<>>, out2all |-> <<>>], s1, s2, c)

\* the ways to cut a stream of n frames into cycles
Chunkings(n) ==
  {c \in UNION {[1..k -> 0..MaxBlock] : k \in 0..MaxCycles} : SumLens(c, Len(c)) = n}

\* C8 (as claimed): any other way of cutting the same two input streams into
\* cycles makes the engine emit the same sample sequence on each channel.
C8_ChunkingIndependent ==
  \A c \in Chunkings(Len(in1all)) :
    LET other == RunFromStart(delay_frames, in1all, in2all, c)
    IN /\ Emitted(other.out1all) = Emitted(out1all)
       /\ Emitted(other.out2all) = Emitted(out2all)

\* all cycles so far had block length B > 0 and D is a positive multiple of B
BlockAligned ==
  /\ lens # <<>>
  /\ lens[1] > 0
  /\ \A k \in DOMAIN lens : lens[k] = lens[1]
  /\ delay_frames > 0
  /\ delay_frames % lens[1] = 0

\* C9: with a constant block length B > 0 and D a positive multiple of B,
\* channel 1 emits nothing in cycles 1..D/B, its buffer holds D samples at
\* the end of cycle D/B, and cycle D/B + j writes the j-th input block of
\* channel 1 to out1.
C9_BlockAligned ==
  BlockAligned =>
    LET B == lens[1]
        q == delay_frames \div B
    IN /\ \A k \in 1..Len(lens) :
            IF k <= q THEN BlockOf(out1all, k) = StaleBlock(B)
            ELSE BlockOf(out1all, k) = BlockOf(in1all, k - q)
       /\ Len(lens) = q => Len(mem1) = delay_frames

\* C9 witness: a block-aligned run that has gone past cycle D/B, so that
\* out1 holds an earlier input block.
C9_Witness ==
  /\ BlockAligned
  /\ Len(lens) > delay_frames \div lens[1]
  /\ Wrote(out1)

\* C10: a notification callback leaves both buffers, the flush flag, the
\* port buffers and everything emitted so far unchanged, and the callbacks
\* that return a control value return Continue.
C10_NotificationsIndependent ==
  [][last' \in Notifications =>
       /\ engine' = engine
       /\ ports' = ports
       /\ history' = history
       /\ (last' \in ControlCallbacks => ret' = "Continue")]_vars

\* C10 witness: a control-returning notification arrived between cycles
\* while the engine was flushing with samples buffered.
C10_Witness ==
  /\ last \in ControlCallbacks
  /\ flush
  /\ mem1 # <<>>
  /\ Emitted(out2all) # <<>>
\* the first cycle after whose ingestion channel 1 has taken in at least D
\* frames (while filling, the buffer holds everything ingested), 0 if none
FirstOpportunity ==
  LET reached == {k \in 1..Len(lens) : SumLens(lens, k) >= delay_frames}
  IN IF reached = {} THEN 0
     ELSE CHOOSE k \in reached : \A j \in reached : k <= j

\* C11: the flag is raised in exactly the first cycle in which channel 1's
\* buffer length after ingestion is >= D, by the channel-1 call of
\* send_frames; the channel-2 call never raises it.
C11_TriggerByChannelOne ==
  /\ trigger = FirstOpportunity
  /\ flush <=> trigger # 0
  /\ (trigger # 0 /\ trigger = Len(lens)) =>
       /\ ~calls[1].arg.flush
       /\ calls[1].res.flush
       /\ Len(calls[1].arg.memory) >= delay_frames
  /\ Len(calls) = 2 => calls[2].res.flush = calls[2].arg.flush

\* C11 witness: the flag was raised in a cycle later than the first one,
\* and the channel-2 call of that cycle was entered with the flag set.
C11_Witness ==
  /\ trigger >= 2
  /\ trigger = Len(lens)
  /\ Len(calls) = 2
  /\ calls[2].arg.flush

\* a call that drained exactly one output block from the head of its buffer
Drained(c) ==
  /\ ~c.res.panic
  /\ c.res.out_port = SubSeq(c.arg.memory, 1, Len(c.arg.out_port))
  /\ c.res.memory = SubSeq(c.arg.memory, Len(c.arg.out_port) + 1, Len(c.arg.memory))

\* C12 (as claimed): in every cycle in which flush is true after the
\* threshold check, the triggering cycle included, each of the two channels
\* drains exactly one output block from its buffer into its output.
C12_DrainInEveryFlushingCycle ==
  (calls # <<>> /\ flush) =>
    /\ Len(calls) = 2
    /\ Drained(calls[1])
    /\ Drained(calls[2])

\* C13: a cycle that begins with flush = true appends the b input samples
\* to each buffer, overwrites each output block with the b oldest buffered
\* samples and removes exactly those, so both buffer lengths are the same
\* at the end of the cycle as at its start.
C13_SteadyState ==
  [][(flush /\ last' = "process") =>
       LET b == Len(in1all') - Len(in1all)
           grown1 == mem1 \o SubSeq(in1all', Len(in1all) + 1, Len(in1all'))
           grown2 == mem2 \o SubSeq(in2all', Len(in2all) + 1, Len(in2all'))
       IN /\ calls'[1].arg.memory = grown1
          /\ calls'[2].arg.memory = grown2
          /\ out1' = SubSeq(grown1, 1, b)
          /\ out2' = SubSeq(grown2, 1, b)
          /\ mem1' = SubSeq(grown1, b + 1, Len(grown1))
          /\ mem2' = SubSeq(grown2, b + 1, Len(grown2))
          /\ Len(mem1') = Len(mem1)
          /\ Len(mem2') = Len(mem2)]_vars

\* C13 witness: a cycle with a non-empty block has run after the triggering
\* cycle and channel 1 still holds samples.
C13_Witness ==
  /\ last = "process"
  /\ trigger # 0
  /\ trigger < Len(lens)
  /\ lens[Len(lens)] > 0
  /\ mem1 # <<>>

ShortDrain(c) == c.arg.flush /\ Len(c.arg.memory) < Len(c.arg.out_port)

\* C14: send_frames invoked with flush = true and a buffer shorter than the
\* output block ends in an error (out-of-range slice) instead of padding or
\* emitting a partial block, and leaves the output block, the buffer and
\* the flag as they were.
C14_DrainFailsOpen ==
  \A i \in DOMAIN calls :
    ShortDrain(calls[i]) =>
      /\ calls[i].res.panic
      /\ calls[i].res.out_port = calls[i].arg.out_port
      /\ calls[i].res.memory = calls[i].arg.memory
      /\ calls[i].res.flush = calls[i].arg.flush
      /\ panicked
      /\ flush
      /\ IF i = 1 THEN out1 = calls[i].arg.out_port /\ mem1 = calls[i].arg.memory
                  ELSE out2 = calls[i].arg.out_port /\ mem2 = calls[i].arg.memory

\* C14 witness: channel 2 was asked for a block while holding some samples
\* but fewer than the block length.
C14_Witness ==
  /\ Len(calls) = 2
  /\ ShortDrain(calls[2])
  /\ calls[2].arg.memory # <<>>
  /\ panicked
\* C17: when the host keeps invoking the callback and cycles with frames
\* keep coming (for D = 0: when it is invoked at all), flush eventually
\* becomes true, and every cycle that starts with flush = true emits a full
\* output block on both channels.
C17_EventuallyFlushing ==
  /\ <>flush
  /\ [][(flush /\ last' = "process") =>
          /\ Len(calls') = 2
          /\ Drained(calls'[1])
          /\ Drained(calls'[2])
          /\ Len(out1') = Len(in1all') /\ ~(\E i \in DOMAIN out1' : out1'[i] = Stale)
          /\ Len(out2') = Len(in2all') /\ ~(\E i \in DOMAIN out2' : out2'[i] = Stale)]_vars

\* C17 witness: with D > 0, a cycle that started with flush = true has
\* written a full non-empty block to both outputs.
C17_Witness ==
  /\ delay_frames > 0
  /\ flush
  /\ trigger = 0
  /\ lens # <<>>
  /\ lens[1] > 0
  /\ Emitted(out1) = out1
  /\ Emitted(out2) = out2
  /\ Len(out1) = lens[1]
  /\ Len(out2) = lens[1]

\* the buffers of a run without end stay below the cap of ProcessLive
LiveBuffersBelowCap ==
  /\ Len(mem1) <= MaxDelay + MaxBlock
  /\ Len(mem2) <= Len(mem1)
====
